---- MODULE Spec2Model ----
(***************************************************************************)
(* Model of fusrate/endf.py (LogLogExtrapolation, LogLogReinterpolation,   *)
(* ENDFCrossSection) and fusionrate/ion_data.py (ion_mass).                *)
(*                                                                         *)
(* Floating point numbers are fixed point integers with three decimals     *)
(* (1.0 is 1000).  Energies handed to the interpolants are keV, cross      *)
(* sections are mb, raw tables are eV and barns, masses are amu.           *)
(* Logarithms are natural logarithms in the same fixed point format.       *)
(***************************************************************************)
EXTENDS Integers, Sequences, FiniteSets, TLC

(***************************************************************************)
(* Bounds of the model.                                                    *)
(***************************************************************************)
\* longest raw table / input array
MaxLen == 3
\* number of engines that can be alive at once
MaxEngines == 2
\* grid size of LogLogReinterpolation (endf.py:71 has 6000; scaled down)
NUM_REMESH == 5
\* explicit num_remesh argument used by the direct LogLogReinterpolation runs
NumRemeshArg == 3

(***************************************************************************)
(* Fixed point arithmetic.                                                 *)
(***************************************************************************)
One == 1000

RECURSIVE FloorLog2(_)
FloorLog2(n) == IF n < 2 THEN 0 ELSE 1 + FloorLog2(n \div 2)

RECURSIVE Pow2(_)
Pow2(k) == IF k <= 0 THEN 1 ELSE 2 * Pow2(k - 1)

\* a * b of two fixed point numbers, without leaving 32 bits
FMul(a, b) == (a \div One) * b + ((a % One) * b) \div One

\* a / b of two fixed point numbers
FDiv(a, b) == (a * One) \div b

\* log2 of the integer n >= 1, in thousandths: exponent plus linear mantissa
\* (the mantissa is cut to 21 bits)
Log2Milli(n) ==
    LET k == FloorLog2(n)
        b == IF k > 20 THEN 20 ELSE k
        m == IF k > 20 THEN n \div Pow2(k - 20) ELSE n
    IN  One * k + (One * (m - Pow2(b))) \div Pow2(b)

\* ln 2 = 0.693
Ln2 == 693

LnOfInt(n) == (Log2Milli(n) * Ln2) \div One

\* np.log(0.0) is -inf
NegInf == -1000000

\* np.log of the fixed point number v >= 0
Log(v) == IF v <= 0 THEN NegInf ELSE LnOfInt(v) - LnOfInt(One)

\* SMALL = 1e-50 is below the fixed point resolution: it is carried by its
\* logarithms, np.log(1e-50) = -115.129 and np.log10(1e-50) = -50
SMALL == [ln |-> -115129, log10 |-> -50000]

\* np.log(v + small) for a small below the resolution of every v > 0
LogPlus(v, small) == IF v <= 0 THEN small.ln ELSE Log(v)

\* np.log10(small)
Log10(small) == small.log10

\* largest representable value (results saturate instead of overflowing)
FloatMax == 2000000000

\* np.exp of the fixed point logarithm l
Exp(l) ==
    LET l2 == (l * One) \div Ln2
        k  == l2 \div One
        f  == l2 % One
    IN  IF l <= NegInf THEN 0
        ELSE IF k >= 20 THEN FloatMax
        ELSE IF k >= 0 THEN Pow2(k) * (One + f)
        ELSE IF k < -11 THEN 0
        ELSE (One + f) \div Pow2(-k)

Range(s) == {s[i] : i \in 1..Len(s)}

Last(s) == s[Len(s)]

RECURSIVE MinOf(_)
MinOf(s) == IF Len(s) = 1 THEN s[1]
            ELSE LET m == MinOf(Tail(s)) IN IF s[1] <= m THEN s[1] ELSE m

RECURSIVE MaxOf(_)
MaxOf(s) == IF Len(s) = 1 THEN s[1]
            ELSE LET m == MaxOf(Tail(s)) IN IF s[1] >= m THEN s[1] ELSE m

StrictlyIncreasing(s) == \A i \in 1..(Len(s) - 1) : s[i] < s[i + 1]

(***************************************************************************)
(* Library functions used by endf.py.                                      *)
(***************************************************************************)
\* np.linspace(a, b, n)
Linspace(a, b, n) == [i \in 1..n |-> IF i = n THEN b ELSE a + ((i - 1) * (b - a)) \div (n - 1)]

\* value at v of the line through (x0, y0) and (x1, y1)
Line(x0, y0, x1, y1, v) == y0 + ((y1 - y0) * (v - x0)) \div (x1 - x0)

\* index of the segment of xp that holds v, for xp[1] <= v < xp[Len(xp)]
Segment(xp, v) == CHOOSE i \in 1..(Len(xp) - 1) : xp[i] <= v /\ v < xp[i + 1]

\* np.interp(v, xp, fp, left=left, right=right)
NpInterp(v, xp, fp, left, right) ==
    IF v < xp[1] THEN left
    ELSE IF v > Last(xp) THEN right
    ELSE IF v = Last(xp) THEN Last(fp)
    ELSE LET i == Segment(xp, v)
         IN  Line(xp[i], fp[i], xp[i + 1], fp[i + 1], v)

\* InterpolatedUnivariateSpline(logx, logy, k=2, ext=0) evaluated at v: a curve
\* through every knot that extrapolates beyond both ends (ext=0).  The curve
\* between the knots is taken piecewise linear.
Spline(logx, logy, v) ==
    LET n == Len(logx)
        i == IF v < logx[1] THEN 1
             ELSE IF v >= logx[n] THEN n - 1
             ELSE Segment(logx, v)
    IN  Line(logx[i], logy[i], logx[i + 1], logy[i + 1], v)

(***************************************************************************)
(* State.                                                                  *)
(***************************************************************************)
VARIABLES
    ion_data,       \* ion_data.py: the table loaded from ions.json at import
    store,          \* load_data: canonical key -> raw (energy, cross section) table
    engines,        \* the ENDFCrossSection instances that were returned
    pc,             \* position of the running ENDFCrossSection.__init__
    r,              \* its argument r
    interpolation,  \* its argument interpolation
    self,           \* the attributes set so far on the instance under construction
    loc,            \* its local variables
    calls,          \* the collaborator calls it has made, in order
    given,          \* arguments of the directly built interpolants
    lle,            \* a LogLogExtrapolation instance
    llr,            \* a LogLogReinterpolation instance
    jit,            \* the function returned by make_jitfunction
    snap,           \* what jit returned for each energy when it was made
    ret,            \* what the last operation returned or raised
    op              \* the last operation and its argument

engineVars == <<ion_data, store, engines, pc, r, interpolation, self, loc, calls>>
interpVars == <<given, lle, llr, jit, snap>>
vars == <<ion_data, store, engines, pc, r, interpolation, self, loc, calls,
          given, lle, llr, jit, snap, ret, op>>

None == [kind |-> "none"]
Value(v) == [kind |-> "value", val |-> v]

(***************************************************************************)
(* class LogLogExtrapolation                                               *)
(***************************************************************************)
\* a variant of subsequent_points whose offsets start at the last real point
subsequent_points_from_zero(data) ==
    LET n     == Len(data)
        last  == data[n]
        delta == <<data[n][1] - data[n - 1][1], data[n][2] - data[n - 1][2]>>
    IN  [j \in 1..3 |-> <<last[1] + (j - 1) * delta[1], last[2] + (j - 1) * delta[2]>>]

\* rows 'last + np.outer([1, 2, 3], delta)' of endf.py:32-35
subsequent_points(data) ==
    LET n     == Len(data)
        last  == data[n]
        delta == <<data[n][1] - data[n - 1][1], data[n][2] - data[n - 1][2]>>
    IN  [j \in 1..3 |-> <<last[1] + j * delta[1], last[2] + j * delta[2]>>]

\* LogLogExtrapolation.__init__(x, y, linear_extension)
LogLogExtrapolation(x, y, linear_extension) ==
    LET logx == [i \in 1..Len(x) |-> LogPlus(x[i], SMALL)]
        logy == [i \in 1..Len(y) |-> Log(y[i])]
        data == [i \in 1..Len(x) |-> <<logx[i], logy[i]>>]
        full == IF linear_extension THEN data \o subsequent_points(data) ELSE data
    IN  [kind  |-> "LogLogExtrapolation",
         x     |-> x,
         y     |-> y,
         max_x |-> MaxOf(x),
         min_x |-> MinOf(x),
         data  |-> full,
         logx  |-> [i \in 1..Len(full) |-> full[i][1]],
         logy  |-> [i \in 1..Len(full) |-> full[i][2]]]

\* LogLogExtrapolation.interpolator(v)
LLE_interpolator(o, v) == Spline(o.logx, o.logy, v)

\* LogLogExtrapolation.__call__(newx)
LLE_call(o, newx) == Exp(LLE_interpolator(o, LogPlus(newx, SMALL)))

(***************************************************************************)
(* class LogLogReinterpolation                                             *)
(***************************************************************************)
LOWBOUND == 10
HIGHBOUND == 40000000

\* LogLogReinterpolation._remeshed_log_x, for NUM_REMESH = n
remeshed_log_x(n) == Linspace(Log(LOWBOUND), Log(HIGHBOUND), n)

\* LogLogReinterpolation.__init__(x, y, linear_extension, num_remesh);
\* num_remesh = 0 stands for None
LogLogReinterpolation(x, y, linear_extension, num_remesh) ==
    LET n     == IF num_remesh # 0 THEN num_remesh ELSE NUM_REMESH
        grid  == remeshed_log_x(n)
        o     == LogLogExtrapolation(x, y, linear_extension)
    IN  [kind          |-> "LogLogReinterpolation",
         NUM_REMESH    |-> n,
         remeshed_logx |-> grid,
         remeshed_logy |-> [i \in 1..n |-> LLE_interpolator(o, grid[i])]]

\* LogLogReinterpolation.__call__(newx)
LLR_call(o, newx) ==
    Exp(NpInterp(Log(newx), o.remeshed_logx, o.remeshed_logy,
                 o.remeshed_logy[1], Log10(SMALL)))

\* LogLogReinterpolation.make_jitfunction: the closure cells of logloginterp
make_jitfunction(o) ==
    [kind        |-> "logloginterp",
     small       |-> SMALL,
     remesh_logx |-> o.remeshed_logx,
     remesh_logy |-> o.remeshed_logy]

\* a variant of logloginterp that reads the grid through the object that made it
logloginterp_via_self(f, newx) ==
    IF llr.kind = "none" THEN -1
    ELSE Exp(NpInterp(LogPlus(newx, f.small), llr.remeshed_logx, llr.remeshed_logy,
                      llr.remeshed_logy[1], Last(llr.remeshed_logy)))

\* logloginterp(newx), the function make_jitfunction returns
logloginterp(f, newx) ==
    Exp(NpInterp(LogPlus(newx, f.small), f.remesh_logx, f.remesh_logy,
                 f.remesh_logy[1], Last(f.remesh_logy)))

(***************************************************************************)
(* Direct use of the two interpolant classes.                              *)
(***************************************************************************)
\* tabulated energies (keV) and cross sections (mb) of the direct runs
XVals == {0, 2000, 20000, 300000}
YVals == {1000000, 5000000}

\* energies the interpolants are asked for: 0, 3 keV and 50000 keV
Queries == {0, 3000, 50000000}

ArraysOver(S) == UNION {[1..n -> S] : n \in 2..MaxLen}

Inputs ==
    {in \in [x : {s \in ArraysOver(XVals) : StrictlyIncreasing(s)},
             y : ArraysOver(YVals),
             linear_extension : BOOLEAN] : Len(in.x) = Len(in.y)}

DidOn(name, i, e) == [name |-> name, i |-> i, e |-> e]
Did(name, e) == DidOn(name, 0, e)

\* lle = LogLogExtrapolation(x, y, linear_extension)
NewLLE ==
    /\ lle' = LogLogExtrapolation(given.x, given.y, given.linear_extension)
    /\ ret' = None
    /\ op' = Did("LogLogExtrapolation", 0)
    /\ UNCHANGED <<given, llr, jit, snap>>
    /\ UNCHANGED engineVars

\* lle(e)
CallLLE(e) ==
    /\ lle.kind # "none"
    /\ ret' = Value(LLE_call(lle, e))
    /\ op' = Did("LogLogExtrapolation.__call__", e)
    /\ UNCHANGED interpVars
    /\ UNCHANGED engineVars

\* llr = LogLogReinterpolation(x, y, linear_extension, num_remesh)
NewLLR(num_remesh) ==
    /\ llr' = LogLogReinterpolation(given.x, given.y, given.linear_extension, num_remesh)
    /\ ret' = None
    /\ op' = Did("LogLogReinterpolation", num_remesh)
    /\ UNCHANGED <<given, lle, jit, snap>>
    /\ UNCHANGED engineVars

\* llr(e)
CallLLR(e) ==
    /\ llr.kind # "none"
    /\ ret' = Value(LLR_call(llr, e))
    /\ op' = Did("LogLogReinterpolation.__call__", e)
    /\ UNCHANGED interpVars
    /\ UNCHANGED engineVars

\* jit = llr.make_jitfunction()
MakeJit ==
    /\ llr.kind # "none"
    /\ jit' = make_jitfunction(llr)
    /\ snap' = [e \in Queries |-> logloginterp(jit', e)]
    /\ ret' = None
    /\ op' = Did("make_jitfunction", 0)
    /\ UNCHANGED <<given, lle, llr>>
    /\ UNCHANGED engineVars

\* jit(e)
CallJit(e) ==
    /\ jit.kind # "none"
    /\ ret' = Value(logloginterp(jit, e))
    /\ op' = Did("logloginterp", e)
    /\ UNCHANGED interpVars
    /\ UNCHANGED engineVars

\* llr.remeshed_logx, llr.remeshed_logy = <another grid>, np.zeros(NUM_REMESH)
Reassign ==
    /\ llr.kind # "none"
    /\ llr' = [llr EXCEPT !.remeshed_logx = Linspace(Log(LOWBOUND), 0, llr.NUM_REMESH),
                          !.remeshed_logy = [i \in 1..llr.NUM_REMESH |-> 0]]
    /\ ret' = None
    /\ op' = Did("reassign", 0)
    /\ UNCHANGED <<given, lle, jit, snap>>
    /\ UNCHANGED engineVars

\* del llr
Drop ==
    /\ llr.kind # "none"
    /\ llr' = None
    /\ ret' = None
    /\ op' = Did("del", 0)
    /\ UNCHANGED <<given, lle, jit, snap>>
    /\ UNCHANGED engineVars

(***************************************************************************)
(* Collaborators of ENDFCrossSection.                                      *)
(***************************************************************************)
Error(type, arg) == [kind |-> "error", type |-> type, arg |-> arg]

\* ions.json: species symbol -> record with (at least) a mass, in amu
IonsJson ==
    ("D" :> [mass |-> 2014, charge |-> 1]) @@
    ("T" :> [mass |-> 3016, charge |-> 1]) @@
    ("3He" :> [mass |-> 3016, charge |-> 2]) @@
    ("11B" :> [mass |-> 11009, charge |-> 5])

\* symbols ion_mass is asked for
Species == {"D", "T", "3He", "11B", "p", "6Li"}

\* a variant of ion_mass that reads another field of the record
ion_mass_charge(s) ==
    IF s \in DOMAIN ion_data THEN Value(ion_data[s]["charge"]) ELSE Error("KeyError", s)

\* ion_data.ion_mass(s): ion_data[s]["mass"]
ion_mass(s) ==
    IF s \in DOMAIN ion_data THEN Value(ion_data[s]["mass"]) ELSE Error("KeyError", s)

\* reactionnames: accepted strings and the canonical key of each
Aliases ==
    ("DT" :> "D+T") @@ ("D+T" :> "D+T") @@ ("t(d,n)a" :> "D+T") @@
    ("2T" :> "T+T") @@ ("T+T" :> "T+T") @@
    ("DHe3" :> "D+3He") @@ ("pB" :> "p+11B") @@ ("6Li(d,p)7Li" :> "D+6Li")

\* reactionnames.name_resolver(s)
name_resolver(s) ==
    IF s \in DOMAIN Aliases THEN Value(Aliases[s]) ELSE Error("UnresolvedReactionName", s)

\* reactionnames.reactants(name): (beam, target) of a canonical key
reactants(name) ==
    CASE name = "D+T"   -> <<"D", "T">>
      [] name = "T+T"   -> <<"T", "T">>
      [] name = "D+3He" -> <<"D", "3He">>
      [] name = "p+11B" -> <<"p", "11B">>
      [] name = "D+6Li" -> <<"D", "6Li">>

\* load_data.cross_section_data(name): the raw table of a canonical key
cross_section_data(name) ==
    IF name \in DOMAIN store THEN Value(store[name]) ELSE Error("UnknownReactionData", name)

\* strings handed to the constructor
RStrings == {"DT", "D+T", "2T", "DHe3", "pB", "6Li(d,p)7Li", "not-a-reaction"}

\* values handed as interpolation
Modes == {"LogLogExtrapolation", "LogLogReinterpolation", "bogus"}

\* raw tables: energies in eV (500 eV, 10 keV, 100 keV, 1 MeV), cross sections in barns
RawEnergies == {500000, 10000000, 100000000, 1000000000}
RawSigmas == {1000, 5000}

RawTables ==
    {t \in [x : {u \in ArraysOver(RawEnergies) : StrictlyIncreasing(u)},
            y : ArraysOver(RawSigmas)] : Len(t.x) = Len(t.y)}

TTTable == [x |-> <<500000, 10000000>>, y |-> <<5000, 1000>>]

Stores ==
    {("D+T" :> t) @@ ("T+T" :> TTTable) : t \in RawTables}

(***************************************************************************)
(* class ENDFCrossSection                                                  *)
(***************************************************************************)
\* o.a = v
SetAttr(o, a, v) == [b \in (DOMAIN o) \cup {a} |-> IF b = a THEN v ELSE o[b]]

\* o.a
GetAttr(o, a) == IF a \in DOMAIN o THEN Value(o[a]) ELSE Error("AttributeError", a)

Raise(e) == pc' = "raised" /\ ret' = e

\* x_raw * bt_to_com / 1e3 (endf.py:143)
ConvertX(x_raw, bt_to_com) == [i \in 1..Len(x_raw) |-> FMul(x_raw[i], bt_to_com) \div 1000]

\* y_raw * 1e3 (endf.py:146)
ConvertY(y_raw) == [i \in 1..Len(y_raw) |-> y_raw[i] * 1000]

\* ENDFCrossSection(rr, interpolation=mode): entry and the isinstance test
New(rr, mode) ==
    /\ pc = "idle"
    /\ Len(engines) < MaxEngines
    /\ r' = rr
    /\ interpolation' = mode
    /\ self' = << >>
    /\ loc' = << >>
    /\ calls' = << >>
    /\ pc' = IF rr.kind = "str" THEN "name_resolver" ELSE "copy"
    /\ ret' = None
    /\ op' = Did("ENDFCrossSection", 0)
    /\ UNCHANGED <<ion_data, store, engines>>
    /\ UNCHANGED interpVars

\* ENDFCrossSection(rr): interpolation takes its default
NewDefault(rr) == New(rr, "LogLogExtrapolation")

\* a variant of ResolveName that falls back to a default reaction
ResolveName_fallback ==
    /\ pc = "name_resolver"
    /\ calls' = Append(calls, <<"name_resolver", r.s>>)
    /\ LET res == name_resolver(r.s)
       IN  loc' = SetAttr(loc, "name", IF res.kind = "error" THEN "D+T" ELSE res.val)
    /\ pc' = "reactants"
    /\ UNCHANGED <<ion_data, store, engines, r, interpolation, self, ret, op>>
    /\ UNCHANGED interpVars

\* name = rn.name_resolver(r)
ResolveName ==
    /\ pc = "name_resolver"
    /\ calls' = Append(calls, <<"name_resolver", r.s>>)
    /\ LET res == name_resolver(r.s)
       IN  IF res.kind = "error"
           THEN Raise(res) /\ UNCHANGED loc
           ELSE /\ loc' = SetAttr(loc, "name", res.val)
                /\ pc' = "reactants"
                /\ UNCHANGED ret
    /\ UNCHANGED <<ion_data, store, engines, r, interpolation, self, op>>
    /\ UNCHANGED interpVars

\* beam, target = rn.reactants(name)
Reactants ==
    /\ pc = "reactants"
    /\ calls' = Append(calls, <<"reactants", loc.name>>)
    /\ loc' = SetAttr(SetAttr(loc, "beam", reactants(loc.name)[1]),
                      "target", reactants(loc.name)[2])
    /\ pc' = "ion_mass_beam"
    /\ UNCHANGED <<ion_data, store, engines, r, interpolation, self, ret, op>>
    /\ UNCHANGED interpVars

\* m_beam = ion_mass(beam)
MassBeam ==
    /\ pc = "ion_mass_beam"
    /\ calls' = Append(calls, <<"ion_mass", loc.beam>>)
    /\ LET res == ion_mass(loc.beam)
       IN  IF res.kind = "error"
           THEN Raise(res) /\ UNCHANGED loc
           ELSE /\ loc' = SetAttr(loc, "m_beam", res.val)
                /\ pc' = "ion_mass_target"
                /\ UNCHANGED ret
    /\ UNCHANGED <<ion_data, store, engines, r, interpolation, self, op>>
    /\ UNCHANGED interpVars

\* m_tar = ion_mass(target); self.bt_to_com = m_tar / (m_beam + m_tar)
MassTarget ==
    /\ pc = "ion_mass_target"
    /\ calls' = Append(calls, <<"ion_mass", loc.target>>)
    /\ LET res == ion_mass(loc.target)
       IN  IF res.kind = "error"
           THEN Raise(res) /\ UNCHANGED <<loc, self>>
           ELSE /\ loc' = SetAttr(loc, "m_tar", res.val)
                /\ self' = SetAttr(self, "bt_to_com", FDiv(res.val, loc.m_beam + res.val))
                /\ pc' = "cross_section_data"
                /\ UNCHANGED ret
    /\ UNCHANGED <<ion_data, store, engines, r, interpolation, op>>
    /\ UNCHANGED interpVars

\* else: name = r.name; self.bt_to_com = r.bt_to_com
Copy ==
    /\ pc = "copy"
    /\ LET nm == GetAttr(engines[r.idx], "name")
           bt == GetAttr(engines[r.idx], "bt_to_com")
       IN  IF nm.kind = "error"
           THEN Raise(nm) /\ UNCHANGED <<loc, self>>
           ELSE /\ loc' = SetAttr(loc, "name", nm.val)
                /\ self' = SetAttr(self, "bt_to_com", bt.val)
                /\ pc' = "cross_section_data"
                /\ UNCHANGED ret
    /\ UNCHANGED <<ion_data, store, engines, r, interpolation, calls, op>>
    /\ UNCHANGED interpVars

\* a variant of Fetch that asks the data store for the constructor's argument
Fetch_by_argument ==
    /\ pc = "cross_section_data"
    /\ r.kind = "str"
    /\ calls' = Append(calls, <<"cross_section_data", r.s>>)
    /\ LET named == SetAttr(self, "canonical_reaction_name", loc.name)
           res   == cross_section_data(r.s)
       IN  IF res.kind = "error"
           THEN Raise(res) /\ self' = named /\ UNCHANGED loc
           ELSE LET x == ConvertX(res.val.x, self.bt_to_com)
                    y == ConvertY(res.val.y)
                IN  /\ loc' = SetAttr(SetAttr(loc, "x", x), "y", y)
                    /\ self' = SetAttr(named, "x", x)
                    /\ pc' = "select"
                    /\ UNCHANGED ret
    /\ UNCHANGED <<ion_data, store, engines, r, interpolation, op>>
    /\ UNCHANGED interpVars

\* self.canonical_reaction_name = name; x_raw, y_raw = cross_section_data(name);
\* x = x_raw * self.bt_to_com / 1e3; y = y_raw * 1e3; self.x = x
Fetch ==
    /\ pc = "cross_section_data"
    /\ calls' = Append(calls, <<"cross_section_data", loc.name>>)
    /\ LET named == SetAttr(self, "canonical_reaction_name", loc.name)
           res   == cross_section_data(loc.name)
       IN  IF res.kind = "error"
           THEN Raise(res) /\ self' = named /\ UNCHANGED loc
           ELSE LET x == ConvertX(res.val.x, self.bt_to_com)
                    y == ConvertY(res.val.y)
                IN  /\ loc' = SetAttr(SetAttr(loc, "x", x), "y", y)
                    /\ self' = SetAttr(named, "x", x)
                    /\ pc' = "select"
                    /\ UNCHANGED ret
    /\ UNCHANGED <<ion_data, store, engines, r, interpolation, op>>
    /\ UNCHANGED interpVars

\* the text of the ValueError of endf.py:156-160, word by word
UnknownInterpolation(mode) ==
    [kind |-> "error", type |-> "ValueError",
     arg  |-> <<"Unknown", "interpolation", "type", mode, "Allowed", "values", "are",
                "LogLogExtrapolation", "and", "LogLogReinterpolation">>]

\* a variant of Select whose else branch builds the default interpolant
Select_default ==
    /\ pc = "select"
    /\ IF interpolation = "LogLogReinterpolation"
       THEN self' = SetAttr(self, "interp",
                            make_jitfunction(LogLogReinterpolation(loc.x, loc.y, TRUE, 0)))
       ELSE self' = SetAttr(self, "interp", LogLogExtrapolation(loc.x, loc.y, TRUE))
    /\ engines' = Append(engines, self')
    /\ pc' = "done"
    /\ ret' = [kind |-> "engine", idx |-> Len(engines')]
    /\ UNCHANGED <<ion_data, store, r, interpolation, loc, calls, op>>
    /\ UNCHANGED interpVars

\* if interpolation == ...: self.interp = ...; else: raise ValueError
Select ==
    /\ pc = "select"
    /\ IF interpolation = "LogLogExtrapolation"
       THEN /\ self' = SetAttr(self, "interp", LogLogExtrapolation(loc.x, loc.y, TRUE))
            /\ engines' = Append(engines, self')
            /\ pc' = "done"
            /\ ret' = [kind |-> "engine", idx |-> Len(engines')]
       ELSE IF interpolation = "LogLogReinterpolation"
       THEN /\ self' = SetAttr(self, "interp",
                           make_jitfunction(LogLogReinterpolation(loc.x, loc.y, TRUE, 0)))
            /\ engines' = Append(engines, self')
            /\ pc' = "done"
            /\ ret' = [kind |-> "engine", idx |-> Len(engines')]
       ELSE /\ Raise(UnknownInterpolation(interpolation))
            /\ UNCHANGED <<self, engines>>
    /\ UNCHANGED <<ion_data, store, r, interpolation, loc, calls, op>>
    /\ UNCHANGED interpVars

\* the constructor's frame is left: the caller has the engine or the exception
Return ==
    /\ pc \in {"done", "raised"}
    /\ pc' = "idle"
    /\ r' = None
    /\ interpolation' = ""
    /\ self' = << >>
    /\ loc' = << >>
    /\ calls' = << >>
    /\ UNCHANGED <<ion_data, store, engines, ret, op>>
    /\ UNCHANGED interpVars

\* self.interp(e)
CallInterp(f, e) ==
    IF f.kind = "LogLogExtrapolation" THEN LLE_call(f, e) ELSE logloginterp(f, e)

\* a variant of cross_section that keeps the energies it was asked for
cross_section_recording(i, e) ==
    /\ pc = "idle"
    /\ i \in 1..Len(engines)
    /\ ret' = Value(CallInterp(engines[i].interp, e))
    /\ engines' = [engines EXCEPT ![i].x = Append(@, e)]
    /\ UNCHANGED <<ion_data, store, pc, r, interpolation, self, loc, calls>>
    /\ UNCHANGED interpVars

\* ENDFCrossSection.cross_section(e) of engine i: return self.interp(e)
cross_section(i, e) ==
    /\ pc = "idle"
    /\ i \in 1..Len(engines)
    /\ ret' = Value(CallInterp(engines[i].interp, e))
    /\ UNCHANGED engineVars
    /\ UNCHANGED interpVars

\* a caller's engine.cross_section(e)
CallCrossSection(i, e) ==
    /\ cross_section(i, e)
    /\ op' = DidOn("cross_section", i, e)

\* ENDFCrossSection.__call__(e) of engine i: return self.cross_section(e)
CallEngine(i, e) ==
    /\ cross_section(i, e)
    /\ op' = DidOn("__call__", i, e)

\* a variant of RangeOf that reads the range off the interpolant
RangeOf_interp(eng) ==
    IF eng.interp.kind = "LogLogExtrapolation"
    THEN <<eng.interp.min_x, Exp(Last(eng.interp.logx))>>
    ELSE <<Exp(eng.interp.remesh_logx[1]), Exp(Last(eng.interp.remesh_logx))>>

\* [min(self.x), max(self.x)]
RangeOf(eng) == <<MinOf(eng.x), MaxOf(eng.x)>>

\* ENDFCrossSection.prescribed_range() of engine i
prescribed_range(i) ==
    /\ pc = "idle"
    /\ i \in 1..Len(engines)
    /\ ret' = Value(RangeOf(engines[i]))
    /\ op' = DidOn("prescribed_range", i, 0)
    /\ UNCHANGED engineVars
    /\ UNCHANGED interpVars

\* a caller's ion_mass(s)
IonMass(s) ==
    /\ pc = "idle"
    /\ ret' = ion_mass(s)
    /\ op' = [name |-> "ion_mass", i |-> 0, e |-> 0, s |-> s]
    /\ UNCHANGED engineVars
    /\ UNCHANGED interpVars

(***************************************************************************)
(* Specifications.                                                         *)
(***************************************************************************)
NoInterp ==
    /\ given = None
    /\ lle = None
    /\ llr = None
    /\ jit = None
    /\ snap = << >>

NoEngine ==
    /\ ion_data = IonsJson
    /\ engines = << >>
    /\ pc = "idle"
    /\ r = None
    /\ interpolation = ""
    /\ self = << >>
    /\ loc = << >>
    /\ calls = << >>

\* after 'import fusrate.endf': the ion table is loaded, no engine exists
Init ==
    /\ NoEngine
    /\ store \in Stores
    /\ NoInterp
    /\ ret = None
    /\ op = Did("import", 0)

RArgs == {[kind |-> "str", s |-> t] : t \in RStrings}
         \cup {[kind |-> "engine", idx |-> i] : i \in 1..Len(engines)}

EngineQueries == {3000, 50000000}

Next ==
    \/ \E rr \in RArgs, mode \in Modes : New(rr, mode)
    \/ \E rr \in RArgs : NewDefault(rr)
    \/ ResolveName
    \/ Reactants
    \/ MassBeam
    \/ MassTarget
    \/ Copy
    \/ Fetch
    \/ Select
    \/ Return
    \/ \E i \in 1..MaxEngines, e \in EngineQueries : CallCrossSection(i, e)
    \/ \E i \in 1..MaxEngines, e \in EngineQueries : CallEngine(i, e)
    \/ \E i \in 1..MaxEngines : prescribed_range(i)
    \/ \E s \in Species : IonMass(s)

Spec == Init /\ [][Next]_vars

\* LogLogExtrapolation used directly, on one pair of arrays
InitLLE ==
    /\ NoEngine
    /\ store = ("T+T" :> TTTable)
    /\ given \in Inputs
    /\ lle = None
    /\ llr = None
    /\ jit = None
    /\ snap = << >>
    /\ ret = None
    /\ op = Did("import", 0)

NextLLE ==
    \/ NewLLE
    \/ \E e \in Queries : CallLLE(e)

SpecLLE == InitLLE /\ [][NextLLE]_vars

\* LogLogReinterpolation and its detached evaluator used directly
InitInterp == InitLLE

NextInterp ==
    \/ \E n \in {0, NumRemeshArg} : NewLLR(n)
    \/ \E e \in Queries : CallLLR(e)
    \/ MakeJit
    \/ \E e \in Queries : CallJit(e)
    \/ Reassign
    \/ Drop

SpecInterp == InitInterp /\ [][NextInterp]_vars

(***************************************************************************)
(* Properties.                                                             *)
(***************************************************************************)
ValidModes == {"LogLogExtrapolation", "LogLogReinterpolation"}

Finished == pc \in {"done", "raised"}

\* indices of the calls of collaborator f made by the running constructor
CallsOf(f) == {k \in 1..Len(calls) : calls[k][1] = f}

\* the data fetch of the running constructor has returned a table
FetchSucceeded ==
    \E k \in CallsOf("cross_section_data") : calls[k][2] \in DOMAIN store

IsValueError(e) == e.kind = "error" /\ e.type = "ValueError"

\* C1 (as claimed): a construction from an engine instance ends with an engine and
\* not with an exception, calls neither the name resolver nor the mass lookup, and
\* the new engine has the key, the bt_to_com and the prescribed range of its source.
C1_CloneEquivalent ==
    (r.kind = "engine" /\ Finished) =>
        /\ pc = "done"
        /\ CallsOf("name_resolver") = {}
        /\ CallsOf("ion_mass") = {}
        /\ Last(engines).canonical_reaction_name = engines[r.idx].canonical_reaction_name
        /\ Last(engines).bt_to_com = engines[r.idx].bt_to_com
        /\ RangeOf(Last(engines)) = RangeOf(engines[r.idx])

\* C2 (as claimed): every construction with an interpolation value other than the
\* two valid ones ends with the invalid-mode error, whose text names both valid
\* values, and with no interpolant; a valid value never ends with that error.
C2_InvalidModeAlwaysValueError ==
    Finished =>
        IF interpolation \in ValidModes
        THEN ~IsValueError(ret)
        ELSE /\ pc = "raised"
             /\ IsValueError(ret)
             /\ ValidModes \subseteq Range(ret.arg)
             /\ "interp" \notin DOMAIN self

\* C2 (amended): a construction with an interpolation value other than the two
\* valid ones always ends with an exception and without interpolant or engine; the
\* exception is the invalid-mode error, naming both valid values, exactly when the
\* data fetch had succeeded, and the error of the earlier failing step otherwise.
\* A valid value (the default included) never ends with the invalid-mode error.
C2_InvalidModeRejected ==
    Finished =>
        IF interpolation \in ValidModes
        THEN ~IsValueError(ret)
        ELSE /\ pc = "raised"
             /\ ret.kind = "error"
             /\ "interp" \notin DOMAIN self
             /\ IsValueError(ret) <=> FetchSucceeded
             /\ IsValueError(ret) =>
                    /\ ValidModes \subseteq Range(ret.arg)
                    /\ interpolation \in Range(ret.arg)

C2_Witness ==
    /\ pc = "raised"
    /\ interpolation = "bogus"
    /\ IsValueError(ret)

\* the converted tabulated energies of an engine, from the stored raw table
Tabulated(eng) ==
    LET raw == store[eng.canonical_reaction_name].x
    IN  [k \in 1..Len(raw) |-> FMul(raw[k], eng.bt_to_com) \div 1000]

\* C3: prescribed_range() returns the minimum and the maximum of the raw energies
\* times bt_to_com divided by 1000, whatever the interpolation mode of the engine:
\* it lies inside the fitted points of a LogLogExtrapolation (the synthetic points
\* are beyond it) and is not the bounds of the remeshed grid.
C3_PrescribedRange ==
    /\ op.name = "prescribed_range" =>
          LET eng == engines[op.i]
              t   == Tabulated(eng)
          IN  /\ ret = Value(<<MinOf(t), MaxOf(t)>>)
              /\ eng.interp.kind = "LogLogExtrapolation" =>
                     LogPlus(ret.val[2], SMALL) < Last(eng.interp.logx)
              /\ eng.interp.kind = "logloginterp" =>
                     /\ ret.val[1] # Exp(eng.interp.remesh_logx[1])
                     /\ ret.val[2] # Exp(Last(eng.interp.remesh_logx))
    /\ \A i, j \in 1..Len(engines) :
          engines[i].canonical_reaction_name = engines[j].canonical_reaction_name
              => RangeOf(engines[i]) = RangeOf(engines[j])

C3_Witness ==
    /\ op.name = "prescribed_range"
    /\ Len(engines) = 2
    /\ engines[1].canonical_reaction_name = engines[2].canonical_reaction_name
    /\ engines[1].interp.kind # engines[2].interp.kind
    /\ Len(engines[op.i].x) = 3

\* C4 (as claimed): every evaluation of a LogLogReinterpolation above HIGHBOUND,
\* by the object's __call__ or by the function make_jitfunction returned, is the
\* fixed floor exp(log10(SMALL)).
C4_RightOfGridIsFloor ==
    (op.name \in {"LogLogReinterpolation.__call__", "logloginterp"} /\ op.e > HIGHBOUND)
        => ret = Value(Exp(Log10(SMALL)))

\* C5: the function returned by make_jitfunction holds the grid arrays and SMALL
\* and nothing else, and whatever happens to the object that made it (fields
\* reassigned, object deleted, another object built) it returns for every energy
\* what it returned when it was made.
C5_DetachedEvaluator ==
    jit.kind # "none" =>
        /\ DOMAIN jit = {"kind", "small", "remesh_logx", "remesh_logy"}
        /\ \A e \in Queries : logloginterp(jit, e) = snap[e]
        /\ op.name = "logloginterp" => ret = Value(snap[op.e])

C5_Witness ==
    /\ op.name = "logloginterp"
    /\ llr.kind = "none"
    /\ snap[op.e] > 0

ReadOps == {"cross_section", "__call__", "prescribed_range"}

\* C6: a step that is a cross_section, __call__ or prescribed_range call leaves
\* every engine as it was (key, bt_to_com, x, interpolant), and what such a call
\* returned is what the same call returns in the state it leaves.
C6_EnginesImmutable ==
    /\ [][op'.name \in ReadOps => engines' = engines]_vars
    /\ [](op.name \in {"cross_section", "__call__"} =>
             ret = Value(CallInterp(engines[op.i].interp, op.e)))
    /\ [](op.name = "prescribed_range" => ret = Value(RangeOf(engines[op.i])))

C6_Witness ==
    /\ op.name = "__call__"
    /\ Len(engines) = 2
    /\ engines[op.i].interp.kind = "logloginterp"

\* the collaborator call c failed
CallFailed(c) ==
    \/ c[1] = "name_resolver" /\ c[2] \notin DOMAIN Aliases
    \/ c[1] = "ion_mass" /\ c[2] \notin DOMAIN ion_data
    \/ c[1] = "cross_section_data" /\ c[2] \notin DOMAIN store

\* C7: a failed collaborator call is the last call of its construction (nothing is
\* attempted after it and it is not repeated), the construction has raised its
\* error, no interpolant was built, no engine was added, and leaving the
\* constructor hands the same error to the caller.
C7_FailFast ==
    /\ [](\A k \in 1..Len(calls) : CallFailed(calls[k]) =>
             /\ k = Len(calls)
             /\ pc = "raised"
             /\ ret = Error(CASE calls[k][1] = "name_resolver" -> "UnresolvedReactionName"
                              [] calls[k][1] = "ion_mass" -> "KeyError"
                              [] calls[k][1] = "cross_section_data" -> "UnknownReactionData",
                            calls[k][2]))
    /\ [](pc = "raised" => ret.kind = "error" /\ "interp" \notin DOMAIN self)
    /\ [][pc' = "raised" => engines' = engines]_vars
    /\ [][pc = "raised" /\ pc' # "raised" =>
            pc' = "idle" /\ ret' = ret /\ engines' = engines]_vars

C7_Witness ==
    /\ pc = "raised"
    /\ ret.kind = "error"
    /\ ret.type = "KeyError"
    /\ Len(calls) = 4

\* the calls of a completed construction from the string t
CallsFor(t) ==
    LET key == Aliases[t]
    IN  <<<<"name_resolver", t>>, <<"reactants", key>>,
          <<"ion_mass", reactants(key)[1]>>, <<"ion_mass", reactants(key)[2]>>,
          <<"cross_section_data", key>>>>

\* C9: a construction never fetches twice and one that returns an engine has
\* fetched exactly once, with the key the resolver returned; on the string path
\* the calls are a prefix of: name_resolver, reactants, ion_mass(beam),
\* ion_mass(target), cross_section_data(key); bt_to_com is m_target / (m_beam +
\* m_target); the mode is acted on only after the fetch returned a table.
C9_FetchOnceInOrder ==
    /\ Cardinality(CallsOf("cross_section_data")) <= 1
    /\ pc \in {"select", "done"} => Cardinality(CallsOf("cross_section_data")) = 1
    /\ pc = "done" =>
          calls[Len(calls)] = <<"cross_section_data", Last(engines).canonical_reaction_name>>
    /\ (r.kind = "str" /\ r.s \in DOMAIN Aliases) =>
          /\ Len(calls) <= 5
          /\ calls = SubSeq(CallsFor(r.s), 1, Len(calls))
          /\ pc \in {"select", "done"} => calls = CallsFor(r.s)
          /\ "bt_to_com" \in DOMAIN self =>
                LET m_beam == IonsJson[reactants(Aliases[r.s])[1]].mass
                    m_tar  == IonsJson[reactants(Aliases[r.s])[2]].mass
                IN  self.bt_to_com = (m_tar * 1000) \div (m_beam + m_tar)
    /\ (r.kind = "str" /\ r.s \notin DOMAIN Aliases) =>
          calls \in {<< >>, <<<<"name_resolver", r.s>>>>}
    /\ (pc # "idle" /\ ("interp" \in DOMAIN self \/ IsValueError(ret))) => FetchSucceeded

C9_Witness ==
    /\ pc = "done"
    /\ r.kind = "str"
    /\ r.s = "DT"
    /\ interpolation = "LogLogReinterpolation"

\* C8: ion_mass(s) returns the mass field of the record of s when the table has
\* s and raises the lookup error for s otherwise, and the table stays the one
\* that was loaded at import: no entry is added, removed or changed.
C8_IonMass ==
    /\ ion_data = IonsJson
    /\ op.name = "ion_mass" =>
          IF op.s \in DOMAIN IonsJson
          THEN ret = Value(IonsJson[op.s].mass)
          ELSE ret = Error("KeyError", op.s)

C8_Witness ==
    /\ op.name = "ion_mass"
    /\ op.s \notin DOMAIN ion_data
    /\ ret.kind = "error"

\* the log-log point of the i-th input point of the directly built interpolant
LogPoint(i) == <<LogPlus(given.x[i], SMALL), Log(given.y[i])>>

\* C10: with linear extension the fitted points are the len(x) log-log points of
\* the input, in order, followed by the last point plus 1, 2 and 3 times the
\* difference of the last two points; the fitted log energies are then strictly
\* increasing (the inputs are) and the three added points are collinear with the
\* last two real ones. Without linear extension the fitted points are the len(x)
\* log-log points of the input.
C10_LinearExtension ==
    lle.kind # "none" =>
        LET n == Len(given.x)
            d == lle.data
            dx == LogPoint(n)[1] - LogPoint(n - 1)[1]
            dy == LogPoint(n)[2] - LogPoint(n - 1)[2]
        IN  /\ \A i \in 1..n : d[i] = LogPoint(i)
            /\ lle.logx = [i \in 1..Len(d) |-> d[i][1]]
            /\ lle.logy = [i \in 1..Len(d) |-> d[i][2]]
            /\ IF given.linear_extension
               THEN /\ Len(d) = n + 3
                    /\ \A j \in 1..3 :
                          /\ d[n + j] = <<LogPoint(n)[1] + j * dx, LogPoint(n)[2] + j * dy>>
                          /\ (d[n + j][1] - d[n][1]) * dy = (d[n + j][2] - d[n][2]) * dx
                    /\ StrictlyIncreasing(given.x) => StrictlyIncreasing(lle.logx)
               ELSE Len(d) = n

C10_Witness ==
    /\ lle.kind # "none"
    /\ given.linear_extension
    /\ Len(given.x) = 3
    /\ lle.data[3][2] # lle.data[2][2]

====
